---------------------------- MODULE Spec2Model ----------------------------
(***************************************************************************)
(* A model of src/c/sbh_vec4.h: the 4D vector struct sbh_vec4 and the      *)
(* conversions from Schwarzschild coordinates (r, phi, theta, t) to        *)
(* rectangular coordinates (x, y, z, t).                                   *)
(*                                                                         *)
(* The functions are modelled statement by statement, the program counter  *)
(* of a call being the line of sbh_vec4.h that it executes next.           *)
(*                                                                         *)
(* A double is modelled by a binary floating-point number of Precision     *)
(* significant bits with gradual underflow, rounded to nearest, ties to    *)
(* even, as IEEE-754 arithmetic is; only the width is smaller than the 53  *)
(* bits of a double.  A number is held as the integer count of its quanta  *)
(* of 2^-FracBits.  Inputs are finite, and since |sin| and |cos| are at    *)
(* most 1 no product overflows, so infinities and NaN do not arise.  Each  *)
(* product is rounded on its own (FLT_EVAL_METHOD 0), and r * s * c is     *)
(* (r * s) * c, as C's grammar has it.                                     *)
(***************************************************************************)
EXTENDS Integers, Sequences, FiniteSets, TLC

(***************************************************************************)
(* The floating-point format.                                              *)
(***************************************************************************)
Precision == 6

FracBits == 11

One == 2 ^ FracBits

Half == One \div 2

Abs(n) == IF n < 0 THEN -n ELSE n

(* The exponent of m: the least k with m / 2^k below 2^Precision. *)
RECURSIVE Scale(_, _)
Scale(m, k) == IF m \div (2 ^ k) < 2 ^ Precision THEN k ELSE Scale(m, k + 1)

(* M / 2^d (M >= 0, d >= 1) rounded to the nearest representable number,   *)
(* a tie going to the even significand.                                    *)
RoundNearestEven(M, d) ==
    LET k == Scale(M \div (2 ^ d), 0)
        s == d + k
        m == M \div (2 ^ s)
        rem == M % (2 ^ s)
        half == 2 ^ (s - 1)
        up == rem > half \/ (rem = half /\ m % 2 = 1)
    IN  (IF up THEN m + 1 ELSE m) * (2 ^ k)

Representable(n) == RoundNearestEven(Abs(n) * One, FracBits) = Abs(n)

(* The C product a * b of two doubles. *)
Mul(a, b) ==
    LET n == a * b
    IN  IF n < 0 THEN -RoundNearestEven(-n, FracBits)
        ELSE RoundNearestEven(n, FracBits)

(* The place of the representable n >= 0 among the representable numbers,  *)
(* counted from 0.                                                         *)
Ord(n) == LET k == Scale(n, 0) IN k * (2 ^ (Precision - 1)) + n \div (2 ^ k)

(***************************************************************************)
(* sin and cos of <math.h>: the value of the real function rounded to the  *)
(* format, tabulated for every representable argument from 0 to 4 in       *)
(* ascending order.  sin is odd and cos is even.  sin(0) = 0 and           *)
(* cos(0) = 1 are exact; pi and pi/2 are not representable, so that the    *)
(* sin of the number nearest to pi and the cos of the number nearest to    *)
(* pi/2 are small and not 0.                                               *)
(***************************************************************************)
SinTable ==
    << 0, 1, 2, 3, 4, 5, 6, 7, 8, 9, 10, 11, 12, 13, 14, 15, 16, 17, 18, 19,
       20, 21, 22, 23, 24, 25, 26, 27, 28, 29, 30, 31, 32, 33, 34, 35, 36,
       37, 38, 39, 40, 41, 42, 43, 44, 45, 46, 47, 48, 49, 50, 51, 52, 53,
       54, 55, 56, 57, 58, 59, 60, 61, 62, 63, 64, 66, 68, 70, 72, 74, 76,
       78, 80, 82, 84, 86, 88, 90, 92, 94, 96, 98, 100, 102, 104, 106, 108,
       110, 112, 114, 116, 118, 120, 122, 124, 126, 128, 132, 136, 140, 144,
       148, 152, 156, 160, 164, 168, 172, 176, 180, 184, 188, 192, 196, 200,
       204, 208, 212, 216, 220, 224, 228, 232, 236, 240, 244, 248, 252, 256,
       264, 272, 280, 288, 296, 304, 312, 320, 328, 336, 344, 352, 360, 368,
       376, 384, 392, 400, 408, 416, 424, 432, 440, 448, 456, 464, 464, 472,
       480, 488, 496, 504, 528, 544, 560, 576, 576, 592, 608, 624, 640, 656,
       672, 688, 704, 720, 736, 752, 768, 784, 800, 816, 816, 832, 848, 864,
       880, 896, 912, 928, 944, 960, 960, 976, 1008, 1024, 1056, 1088, 1120,
       1152, 1184, 1184, 1216, 1248, 1280, 1312, 1312, 1344, 1376, 1408,
       1408, 1440, 1472, 1472, 1504, 1536, 1536, 1568, 1600, 1600, 1632,
       1664, 1664, 1696, 1696, 1728, 1760, 1792, 1824, 1856, 1888, 1888,
       1920, 1952, 1952, 1984, 1984, 2016, 2016, 2016, 2048, 2048, 2048,
       2048, 2048, 2048, 2048, 2048, 2016, 2016, 2016, 1984, 1984, 1952,
       1920, 1920, 1888, 1856, 1792, 1728, 1664, 1600, 1504, 1408, 1312,
       1216, 1120, 1008, 896, 784, 656, 544, 416, 288, 160, 34, -94, -220,
       -352, -472, -592, -720, -832, -944, -1056, -1184, -1280, -1376, -1472,
       -1536 >>

CosTable ==
    << 2048, 2048, 2048, 2048, 2048, 2048, 2048, 2048, 2048, 2048, 2048,
       2048, 2048, 2048, 2048, 2048, 2048, 2048, 2048, 2048, 2048, 2048,
       2048, 2048, 2048, 2048, 2048, 2048, 2048, 2048, 2048, 2048, 2048,
       2048, 2048, 2048, 2048, 2048, 2048, 2048, 2048, 2048, 2048, 2048,
       2048, 2048, 2048, 2048, 2048, 2048, 2048, 2048, 2048, 2048, 2048,
       2048, 2048, 2048, 2048, 2048, 2048, 2048, 2048, 2048, 2048, 2048,
       2048, 2048, 2048, 2048, 2048, 2048, 2048, 2048, 2048, 2048, 2048,
       2048, 2048, 2048, 2048, 2048, 2048, 2048, 2048, 2048, 2048, 2048,
       2048, 2048, 2048, 2048, 2048, 2048, 2048, 2048, 2048, 2048, 2048,
       2048, 2048, 2048, 2048, 2048, 2048, 2048, 2048, 2048, 2048, 2048,
       2048, 2048, 2048, 2048, 2048, 2048, 2048, 2048, 2048, 2048, 2048,
       2048, 2048, 2048, 2048, 2048, 2048, 2048, 2048, 2016, 2016, 2016,
       2016, 2016, 2016, 2016, 2016, 2016, 2016, 2016, 2016, 2016, 2016,
       2016, 2016, 2016, 2016, 2016, 2016, 2016, 2016, 2016, 1984, 1984,
       1984, 1984, 1984, 1984, 1984, 1984, 1984, 1984, 1984, 1984, 1952,
       1952, 1952, 1952, 1952, 1952, 1952, 1920, 1920, 1920, 1920, 1920,
       1920, 1888, 1888, 1888, 1888, 1888, 1856, 1856, 1856, 1856, 1856,
       1824, 1824, 1824, 1824, 1792, 1792, 1792, 1760, 1760, 1728, 1728,
       1696, 1664, 1664, 1632, 1632, 1600, 1568, 1568, 1536, 1536, 1504,
       1472, 1440, 1440, 1408, 1376, 1376, 1344, 1312, 1280, 1248, 1248,
       1216, 1184, 1152, 1120, 1120, 1056, 992, 944, 880, 832, 768, 704, 640,
       592, 528, 464, 400, 336, 272, 208, 144, 80, 17, -47, -110, -176, -240,
       -304, -368, -424, -488, -560, -608, -672, -736, -800, -848, -960,
       -1088, -1184, -1280, -1376, -1472, -1568, -1632, -1728, -1792, -1856,
       -1888, -1952, -1984, -2016, -2016, -2048, -2048, -2048, -2048, -2016,
       -1984, -1952, -1920, -1856, -1824, -1760, -1696, -1600, -1536, -1440,
       -1344 >>

Sin(a) == IF a < 0 THEN -SinTable[Ord(-a) + 1] ELSE SinTable[Ord(a) + 1]

Cos(a) == CosTable[Ord(Abs(a)) + 1]

(***************************************************************************)
(* The inputs of the model.                                                *)
(***************************************************************************)
MaxR == 4

MaxCalls == 3

(* The doubles nearest to pi/4, pi/2 and pi. *)
PiQuarter == RoundNearestEven(1647099, 10)

PiHalf == 2 * PiQuarter

Pi == 4 * PiQuarter

Rs == {k * Half : k \in -1 .. MaxR}

Angles == {0, PiQuarter, PiHalf, Pi, -PiHalf}

Times == {0, 5 * One}

(* The arguments 1, 2, 3, 4. *)
OneToFour == <<One, 2 * One, 3 * One, 4 * One>>

Inputs == (Rs \X Angles \X Angles \X Times) \cup {OneToFour}

ConcInputs == {2 * One} \X {PiHalf} \X {PiQuarter, Pi} \X {0, 5 * One}

ConcVectors ==
    {<<2 * One, PiQuarter, PiHalf, 5 * One>>, <<One, Pi, PiQuarter, 0>>}

Callers == {1, 2}

SeqCallers == {1}

(***************************************************************************)
(* struct sbh_vec4: an array of 4 doubles, dat[0] .. dat[3].  A TLA+       *)
(* sequence counts from 1, so dat[i] is element Dat(i).                    *)
(***************************************************************************)
Dat(i) == i + 1

Zero4 == <<0, 0, 0, 0>>

(***************************************************************************)
(* The parameters and local variables of a call.  The variables are        *)
(* automatic: each call has a frame of its own.  The struct p of the       *)
(* constructors is not initialized; they write each of p.dat[0] ..         *)
(* p.dat[3] and read none, so the value it starts with is never seen.      *)
(***************************************************************************)
EmptyFrame ==
    [x |-> 0, y |-> 0, z |-> 0, r |-> 0, phi |-> 0, theta |-> 0, t |-> 0,
     sin_phi |-> 0, cos_phi |-> 0, sin_theta |-> 0, cos_theta |-> 0,
     p |-> Zero4]

(* Were the locals static, every call would use the one frame. *)
FrameStatic(c) == 1

Frame(c) == c

VARIABLES
    pc,      \* pc[c]: the line of sbh_vec4.h caller c executes next,
             \*        0 when it is in no call
    fn,      \* fn[c]: the function caller c called last
    vec,     \* vec[c]: the struct sbh_vec4 of caller c: it is assigned what
             \*         the constructors return, and p and q point to it
    out,     \* out[c]: the struct caller c assigns the value of
             \*         sbh_vec4_schwarzschild_to_rect to
    frame,   \* frame[i]: the parameters and locals held in frame i
    made,    \* made[c]: the calls caller c has made
    quota,   \* quota[c]: the calls caller c makes at most
    args,    \* args[c]: the arguments of the constructor caller c called
    qin,     \* qin[c]: *q when sbh_vec4_schwarzschild_to_rect was last called
    hist,    \* hist[c]: *p before the first in-place conversion and after
             \*          each
    log,     \* log[c]: the accesses to *p of the last in-place conversion
    cartesian, \* cartesian[c]: vec[c] holds a vector that a conversion returned
    recon,   \* recon[c]: the finished conversions of such vectors, each as
             \*           <<the vector converted, the result>>
    overlap  \* overlap[c]: another caller was in a call during c's last call

vars == <<pc, fn, vec, out, frame, made, quota, args, qin, hist, log,
         cartesian, recon, overlap>>

ghosts == <<args, qin, hist, log, cartesian, recon, overlap>>

Local(c) == frame[Frame(c)]

SetLocal(c, f) == frame' = [frame EXCEPT ![Frame(c)] = f]

Goto(c, line) == pc' = [pc EXCEPT ![c] = line]

At(c, line) == pc[c] = line

Start(c, name) ==
    /\ pc[c] = 0
    /\ made[c] < quota[c]
    /\ made' = [made EXCEPT ![c] = @ + 1]
    /\ fn' = [fn EXCEPT ![c] = name]
    /\ overlap' = [d \in Callers |->
                      IF d = c THEN \E e \in Callers \ {c} : pc[e] # 0
                      ELSE overlap[d] \/ pc[d] # 0]

InitWith(q, v) ==
    /\ pc = [c \in Callers |-> 0]
    /\ fn = [c \in Callers |-> "none"]
    /\ vec = v
    /\ out = [c \in Callers |-> Zero4]
    /\ frame = [i \in Callers |-> EmptyFrame]
    /\ made = [c \in Callers |-> 0]
    /\ quota = q
    /\ args = [c \in Callers |-> <<>>]
    /\ qin = [c \in Callers |-> <<>>]
    /\ hist = [c \in Callers |-> <<>>]
    /\ log = [c \in Callers |-> <<>>]
    /\ cartesian = [c \in Callers |-> FALSE]
    /\ recon = [c \in Callers |-> {}]
    /\ overlap = [c \in Callers |-> FALSE]

(* One caller, its struct zero as an object of static storage is. *)
Init == InitWith([c \in Callers |-> MaxCalls], [c \in Callers |-> Zero4])

(* Two callers, each about to make one call, each with a struct of its own. *)
InitConc == \E v \in [Callers -> ConcVectors] :
                InitWith([c \in Callers |-> 1], v)

(***************************************************************************)
(* sbh_vec4_rect, lines 64-76.                                             *)
(***************************************************************************)
sbh_vec4_rect(c, x, y, z, t) ==
    /\ Start(c, "sbh_vec4_rect")
    /\ made[c] = 0
    /\ SetLocal(c, [EmptyFrame EXCEPT !.x = x, !.y = y, !.z = z, !.t = t])
    /\ Goto(c, 71)
    /\ args' = [args EXCEPT ![c] = <<x, y, z, t>>]
    /\ UNCHANGED <<vec, out, quota, qin, hist, log, cartesian, recon>>

(* A statement of a constructor: it assigns f to the frame and goes on. *)
LocalStep(c, from, to, f) ==
    /\ At(c, from)
    /\ SetLocal(c, f)
    /\ Goto(c, to)
    /\ UNCHANGED <<fn, vec, out, made, quota, ghosts>>

Rect71(c) ==
    LocalStep(c, 71, 72, [Local(c) EXCEPT !.p[Dat(0)] = Local(c).x])

(* Line 72 with z for y. *)
Rect72Swapped(c) ==
    LocalStep(c, 72, 73, [Local(c) EXCEPT !.p[Dat(1)] = Local(c).z])

Rect72(c) ==
    LocalStep(c, 72, 73, [Local(c) EXCEPT !.p[Dat(1)] = Local(c).y])

Rect73(c) ==
    LocalStep(c, 73, 74, [Local(c) EXCEPT !.p[Dat(2)] = Local(c).z])

Rect74(c) ==
    LocalStep(c, 74, 75, [Local(c) EXCEPT !.p[Dat(3)] = Local(c).t])

(* return p; the caller assigns the value to its struct. *)
Rect75(c) ==
    /\ At(c, 75)
    /\ vec' = [vec EXCEPT ![c] = Local(c).p]
    /\ SetLocal(c, EmptyFrame)
    /\ Goto(c, 0)
    /\ UNCHANGED <<fn, out, made, quota, ghosts>>

(***************************************************************************)
(* sbh_vec4_rect_from_schwarzschild, lines 100-121.                        *)
(***************************************************************************)
sbh_vec4_rect_from_schwarzschild(c, r, phi, theta, t) ==
    /\ Start(c, "sbh_vec4_rect_from_schwarzschild")
    /\ made[c] = 0
    /\ SetLocal(c, [EmptyFrame EXCEPT !.r = r, !.phi = phi,
                                      !.theta = theta, !.t = t])
    /\ Goto(c, 108)
    /\ args' = [args EXCEPT ![c] = <<r, phi, theta, t>>]
    /\ UNCHANGED <<vec, out, quota, qin, hist, log, cartesian, recon>>

From108(c) ==
    LocalStep(c, 108, 109, [Local(c) EXCEPT !.sin_phi = Sin(Local(c).phi)])

From109(c) ==
    LocalStep(c, 109, 110, [Local(c) EXCEPT !.cos_phi = Cos(Local(c).phi)])

From110(c) ==
    LocalStep(c, 110, 111,
              [Local(c) EXCEPT !.sin_theta = Sin(Local(c).theta)])

From111(c) ==
    LocalStep(c, 111, 114,
              [Local(c) EXCEPT !.cos_theta = Cos(Local(c).theta)])

(* Line 114 with phi and theta exchanged. *)
From114Swapped(c) ==
    LocalStep(c, 114, 115,
              [Local(c) EXCEPT !.p[Dat(0)] =
                  Mul(Mul(Local(c).r, Local(c).sin_phi), Local(c).cos_theta)])

From114(c) ==
    LocalStep(c, 114, 115,
              [Local(c) EXCEPT !.p[Dat(0)] =
                  Mul(Mul(Local(c).r, Local(c).sin_theta), Local(c).cos_phi)])

(* Line 115 with cos_phi for sin_phi. *)
From115CosPhi(c) ==
    LocalStep(c, 115, 116,
              [Local(c) EXCEPT !.p[Dat(1)] =
                  Mul(Mul(Local(c).r, Local(c).sin_theta), Local(c).cos_phi)])

From115(c) ==
    LocalStep(c, 115, 116,
              [Local(c) EXCEPT !.p[Dat(1)] =
                  Mul(Mul(Local(c).r, Local(c).sin_theta), Local(c).sin_phi)])

(* Line 116 with sin_theta for cos_theta. *)
From116Sin(c) ==
    LocalStep(c, 116, 119,
              [Local(c) EXCEPT !.p[Dat(2)] =
                  Mul(Local(c).r, Local(c).sin_theta)])

(* Line 116 without the factor r. *)
From116NoR(c) ==
    LocalStep(c, 116, 119, [Local(c) EXCEPT !.p[Dat(2)] = Local(c).cos_theta])

From116(c) ==
    LocalStep(c, 116, 119,
              [Local(c) EXCEPT !.p[Dat(2)] =
                  Mul(Local(c).r, Local(c).cos_theta)])

From119(c) ==
    LocalStep(c, 119, 120, [Local(c) EXCEPT !.p[Dat(3)] = Local(c).t])

(* return p; to the caller, or to sbh_vec4_schwarzschild_to_rect, which    *)
(* returns the value as it is (line 129).                                  *)
From120(c) ==
    /\ At(c, 120)
    /\ IF fn[c] = "sbh_vec4_schwarzschild_to_rect"
       THEN /\ out' = [out EXCEPT ![c] = Local(c).p]
            /\ recon' = [recon EXCEPT ![c] =
                            IF cartesian[c] THEN @ \cup {<<qin[c], Local(c).p>>}
                            ELSE @]
            /\ UNCHANGED <<vec, cartesian>>
       ELSE /\ vec' = [vec EXCEPT ![c] = Local(c).p]
            /\ cartesian' = [cartesian EXCEPT ![c] = TRUE]
            /\ UNCHANGED <<out, recon>>
    /\ SetLocal(c, EmptyFrame)
    /\ Goto(c, 0)
    /\ UNCHANGED <<fn, made, quota, args, qin, hist, log, overlap>>

(***************************************************************************)
(* sbh_vec4_schwarzschild_to_rect, lines 124-132: q->dat[0] .. q->dat[3]   *)
(* become r, phi, theta and t of sbh_vec4_rect_from_schwarzschild.         *)
(***************************************************************************)
sbh_vec4_schwarzschild_to_rect(c) ==
    /\ Start(c, "sbh_vec4_schwarzschild_to_rect")
    /\ SetLocal(c, [EmptyFrame EXCEPT !.r = vec[c][Dat(0)],
                                      !.phi = vec[c][Dat(1)],
                                      !.theta = vec[c][Dat(2)],
                                      !.t = vec[c][Dat(3)]])
    /\ Goto(c, 108)
    /\ qin' = [qin EXCEPT ![c] = vec[c]]
    /\ UNCHANGED <<vec, out, quota, args, hist, log, cartesian, recon>>

(***************************************************************************)
(* sbh_vec4_convert_schwarzschild_to_rect, lines 134-151.                  *)
(***************************************************************************)
sbh_vec4_convert_schwarzschild_to_rect(c) ==
    /\ Start(c, "sbh_vec4_convert_schwarzschild_to_rect")
    /\ SetLocal(c, EmptyFrame)
    /\ Goto(c, 138)
    /\ hist' = [hist EXCEPT ![c] = IF @ = <<>> THEN <<vec[c]>> ELSE @]
    /\ log' = [log EXCEPT ![c] = <<>>]
    /\ UNCHANGED <<vec, out, quota, args, qin, cartesian, recon>>

(* A statement that reads p->dat[i] into the frame. *)
ReadStep(c, from, to, i, f) ==
    /\ At(c, from)
    /\ SetLocal(c, f)
    /\ Goto(c, to)
    /\ log' = [log EXCEPT ![c] = Append(@, <<"read", i>>)]
    /\ UNCHANGED <<fn, vec, out, made, quota, args, qin, hist,
                   cartesian, recon, overlap>>

(* The write, had the struct been passed by value and not by pointer. *)
WriteStepByValue(c, from, to, i, value) ==
    /\ At(c, from)
    /\ SetLocal(c, [Local(c) EXCEPT !.p[Dat(i)] = value])
    /\ Goto(c, to)
    /\ log' = [log EXCEPT ![c] = Append(@, <<"write", i>>)]
    /\ UNCHANGED <<fn, vec, out, made, quota, args, qin, hist,
                   cartesian, recon, overlap>>

(* A statement that writes p->dat[i]. *)
WriteStep(c, from, to, i, value) ==
    /\ At(c, from)
    /\ vec' = [vec EXCEPT ![c][Dat(i)] = value]
    /\ Goto(c, to)
    /\ log' = [log EXCEPT ![c] = Append(@, <<"write", i>>)]
    /\ UNCHANGED <<fn, out, frame, made, quota, args, qin, hist,
                   cartesian, recon, overlap>>

Convert138(c) ==
    ReadStep(c, 138, 141, 0, [Local(c) EXCEPT !.r = vec[c][Dat(0)]])

Convert141(c) ==
    ReadStep(c, 141, 142, 1,
             [Local(c) EXCEPT !.sin_phi = Sin(vec[c][Dat(1)])])

Convert142(c) ==
    ReadStep(c, 142, 143, 1,
             [Local(c) EXCEPT !.cos_phi = Cos(vec[c][Dat(1)])])

(* Line 143 reading dat[1] for dat[2]. *)
Convert143WrongSlot(c) ==
    ReadStep(c, 143, 144, 1,
             [Local(c) EXCEPT !.sin_theta = Sin(vec[c][Dat(1)])])

Convert143(c) ==
    ReadStep(c, 143, 144, 2,
             [Local(c) EXCEPT !.sin_theta = Sin(vec[c][Dat(2)])])

Convert144(c) ==
    ReadStep(c, 144, 148, 2,
             [Local(c) EXCEPT !.cos_theta = Cos(vec[c][Dat(2)])])

Convert148(c) ==
    WriteStep(c, 148, 149, 0,
              Mul(Mul(Local(c).r, Local(c).sin_theta), Local(c).cos_phi))

(* Line 149 reading p->dat[0], which line 148 has overwritten, for r. *)
Convert149NoCache(c) ==
    /\ At(c, 149)
    /\ vec' = [vec EXCEPT ![c][Dat(1)] =
                  Mul(Mul(vec[c][Dat(0)], Local(c).sin_theta),
                      Local(c).sin_phi)]
    /\ Goto(c, 150)
    /\ log' = [log EXCEPT
                  ![c] = Append(Append(@, <<"read", 0>>), <<"write", 1>>)]
    /\ UNCHANGED <<fn, out, frame, made, quota, args, qin, hist,
                   cartesian, recon, overlap>>

Convert149(c) ==
    WriteStep(c, 149, 150, 1,
              Mul(Mul(Local(c).r, Local(c).sin_theta), Local(c).sin_phi))

(* Line 150 writing dat[3] for dat[2]. *)
Convert150Time(c) ==
    WriteStep(c, 150, 151, 3, Mul(Local(c).r, Local(c).cos_theta))

Convert150(c) ==
    WriteStep(c, 150, 151, 2, Mul(Local(c).r, Local(c).cos_theta))

(* The end of the function: it returns nothing. *)
Convert151(c) ==
    /\ At(c, 151)
    /\ SetLocal(c, EmptyFrame)
    /\ Goto(c, 0)
    /\ hist' = [hist EXCEPT ![c] = Append(@, vec[c])]
    /\ cartesian' = [cartesian EXCEPT ![c] = TRUE]
    /\ recon' = [recon EXCEPT ![c] =
                    IF cartesian[c]
                    THEN @ \cup {<<hist[c][Len(hist[c])], vec[c]>>}
                    ELSE @]
    /\ UNCHANGED <<fn, vec, out, made, quota, args, qin, log, overlap>>

(***************************************************************************)
(* The statements of the call a caller is in.                              *)
(***************************************************************************)
Step(c) ==
    \/ Rect71(c) \/ Rect72(c) \/ Rect73(c) \/ Rect74(c) \/ Rect75(c)
    \/ From108(c) \/ From109(c) \/ From110(c) \/ From111(c)
    \/ From114(c) \/ From115(c) \/ From116(c) \/ From119(c) \/ From120(c)
    \/ Convert138(c) \/ Convert141(c) \/ Convert142(c) \/ Convert143(c)
    \/ Convert144(c) \/ Convert148(c) \/ Convert149(c) \/ Convert150(c)
    \/ Convert151(c)

Calls(c, I) ==
    \/ \E a \in I : sbh_vec4_rect(c, a[1], a[2], a[3], a[4])
    \/ \E a \in I : sbh_vec4_rect_from_schwarzschild(c, a[1], a[2], a[3], a[4])
    \/ sbh_vec4_schwarzschild_to_rect(c)
    \/ sbh_vec4_convert_schwarzschild_to_rect(c)

Next == \E c \in SeqCallers : Calls(c, Inputs) \/ Step(c)

Spec == Init /\ [][Next]_vars

NextConc == \E c \in Callers : Calls(c, ConcInputs) \/ Step(c)

SpecConc == InitConc /\ [][NextConc]_vars

TypeOK ==
    \A c \in Callers :
        /\ \A i \in 1 .. 4 :
              Representable(vec[c][i]) /\ Representable(out[c][i])
        /\ made[c] <= quota[c]

(***************************************************************************)
(* What the claims speak of.                                               *)
(***************************************************************************)

(* The spherical-to-rectangular formulas of the specification, each        *)
(* product rounded as C rounds it.                                         *)
SphericalX(r, phi, theta) == Mul(Mul(r, Sin(theta)), Cos(phi))

SphericalY(r, phi, theta) == Mul(Mul(r, Sin(theta)), Sin(phi))

SphericalZ(r, theta) == Mul(r, Cos(theta))

Rectangular(v) ==
    <<SphericalX(v[1], v[2], v[3]), SphericalY(v[1], v[2], v[3]),
      SphericalZ(v[1], v[3]), v[4]>>

Spatial(v) == <<v[1], v[2], v[3]>>

(* Caller c's last call was of function name and has returned. *)
Returned(c, name) == pc[c] = 0 /\ fn[c] = name

(* out[c] is what sbh_vec4_schwarzschild_to_rect returned for qin[c]. *)
ToRectReturned(c) ==
    /\ qin[c] # <<>>
    /\ ~(fn[c] = "sbh_vec4_schwarzschild_to_rect" /\ pc[c] # 0)

(* The finished in-place conversions of caller c, each as <<*p before,     *)
(* *p after>>.                                                             *)
InPlace(c) == {<<hist[c][i], hist[c][i + 1]>> : i \in 1 .. Len(hist[c]) - 1}

(* Every finished conversion of caller c by any of the three functions,    *)
(* as <<the Schwarzschild input, the result>>.                             *)
Conversions(c) ==
    InPlace(c)
    \cup (IF ToRectReturned(c) THEN {<<qin[c], out[c]>>} ELSE {})
    \cup (IF Returned(c, "sbh_vec4_rect_from_schwarzschild")
          THEN {<<args[c], vec[c]>>} ELSE {})

(***************************************************************************)
(* C1.  sbh_vec4_rect_from_schwarzschild(r, phi, theta, t) returns the     *)
(* vector whose dat[0] is r*sin(theta)*cos(phi), dat[1] is                 *)
(* r*sin(theta)*sin(phi), dat[2] is r*cos(theta) and dat[3] is t itself:   *)
(* theta is the third argument and phi the second.                         *)
(***************************************************************************)
C1_FromSchwarzschild ==
    \A c \in Callers :
        Returned(c, "sbh_vec4_rect_from_schwarzschild") =>
            /\ vec[c][Dat(0)] = SphericalX(args[c][1], args[c][2], args[c][3])
            /\ vec[c][Dat(1)] = SphericalY(args[c][1], args[c][2], args[c][3])
            /\ vec[c][Dat(2)] = SphericalZ(args[c][1], args[c][3])
            /\ vec[c][Dat(3)] = args[c][4]

(* The scenario r = 2, phi = 0, theta = pi/2, t = 5: x = 2, y = 0, t = 5   *)
(* and z is 2*cos(theta), which the rounding of pi/2 keeps from being 0.   *)
C1_Witness ==
    /\ Returned(1, "sbh_vec4_rect_from_schwarzschild")
    /\ args[1] = <<2 * One, 0, PiHalf, 5 * One>>
    /\ vec[1][Dat(0)] = 2 * One
    /\ vec[1][Dat(1)] = 0
    /\ vec[1][Dat(2)] = 2 * Cos(PiHalf)
    /\ vec[1][Dat(3)] = 5 * One

(***************************************************************************)
(* C2.  sbh_vec4_schwarzschild_to_rect(&v) and                             *)
(* sbh_vec4_convert_schwarzschild_to_rect on a vector equal to v give the  *)
(* same dat[0], dat[1] and dat[2], and both end with dat[3] that of v.     *)
(***************************************************************************)
C2_ToRectEqualsInPlace ==
    \A c \in Callers :
        \A pr \in InPlace(c) :
            (ToRectReturned(c) /\ pr[1] = qin[c]) =>
                /\ Spatial(pr[2]) = Spatial(out[c])
                /\ out[c][Dat(3)] = qin[c][Dat(3)]
                /\ pr[2][Dat(3)] = qin[c][Dat(3)]

C2_Witness ==
    /\ ToRectReturned(1)
    /\ qin[1] = <<2 * One, PiQuarter, PiQuarter, 5 * One>>
    /\ <<qin[1], out[1]>> \in InPlace(1)
    /\ Spatial(out[1]) # Spatial(qin[1])

(***************************************************************************)
(* C3.  sbh_vec4_convert_schwarzschild_to_rect never writes dat[3]: after  *)
(* any number of in-place conversions of a vector, and during each, its    *)
(* dat[3] is what it was before the first.                                 *)
(***************************************************************************)
C3_TimeUntouched ==
    \A c \in Callers :
        hist[c] # <<>> => vec[c][Dat(3)] = hist[c][1][Dat(3)]

C3_Witness ==
    /\ Len(hist[1]) = 3
    /\ hist[1][1][Dat(3)] = 5 * One
    /\ Spatial(hist[1][2]) # Spatial(hist[1][1])
    /\ Spatial(hist[1][3]) # Spatial(hist[1][2])
    /\ vec[1] = hist[1][3]

(***************************************************************************)
(* C4.  sbh_vec4_rect(x, y, z, t) returns the vector whose dat[0], dat[1], *)
(* dat[2], dat[3] are x, y, z, t themselves, in that order.                *)
(***************************************************************************)
C4_RectVerbatim ==
    \A c \in Callers : Returned(c, "sbh_vec4_rect") => vec[c] = args[c]

(* The scenario sbh_vec4_rect(1, 2, 3, 4). *)
C4_Witness ==
    /\ Returned(1, "sbh_vec4_rect")
    /\ args[1] = OneToFour
    /\ vec[1] = <<One, 2 * One, 3 * One, 4 * One>>

(***************************************************************************)
(* C5 as claimed.  At the poles every conversion gives exactly (0, 0, r)   *)
(* for theta = 0 and exactly (0, 0, -r) for theta = pi.                    *)
(***************************************************************************)
C5_PolesExact ==
    \A c \in Callers :
        \A pr \in Conversions(c) :
            /\ pr[1][3] = 0 => Spatial(pr[2]) = <<0, 0, pr[1][1]>>
            /\ pr[1][3] = Pi => Spatial(pr[2]) = <<0, 0, -pr[1][1]>>

(***************************************************************************)
(* C5 as amended.  For theta = 0 every conversion gives exactly (0, 0, r). *)
(* For theta the double nearest to pi it gives z = -r exactly, and x and y *)
(* of magnitude at most |r*sin(theta)|, the rounded product, where         *)
(* sin(theta) is the rounding error of pi and not 0.                       *)
(***************************************************************************)
C5_PolesRounded ==
    \A c \in Callers :
        \A pr \in Conversions(c) :
            /\ pr[1][3] = 0 => Spatial(pr[2]) = <<0, 0, pr[1][1]>>
            /\ pr[1][3] = Pi =>
                  /\ pr[2][3] = -pr[1][1]
                  /\ Abs(pr[2][1]) <= Abs(Mul(pr[1][1], Sin(Pi)))
                  /\ Abs(pr[2][2]) <= Abs(Mul(pr[1][1], Sin(Pi)))

(* theta = pi, r = 2, phi = pi/4: x and y are not 0. *)
C5_Witness ==
    \E pr \in InPlace(1) :
        /\ pr[1] = <<2 * One, PiQuarter, Pi, 5 * One>>
        /\ pr[2][1] # 0
        /\ pr[2][2] # 0
        /\ pr[2][3] = -2 * One

(***************************************************************************)
(* C6.  At r = 0 every conversion gives (x, y, z) = (0, 0, 0) and dat[3]   *)
(* equal to t, whatever phi and theta are.                                 *)
(***************************************************************************)
C6_Origin ==
    \A c \in Callers :
        \A pr \in Conversions(c) :
            pr[1][1] = 0 => pr[2] = <<0, 0, 0, pr[1][4]>>

C6_Witness ==
    /\ <<<<0, PiQuarter, Pi, 5 * One>>, <<0, 0, 0, 5 * One>>>> \in InPlace(1)
    /\ ToRectReturned(1)
    /\ qin[1] = <<0, PiQuarter, Pi, 5 * One>>
    /\ out[1] = <<0, 0, 0, 5 * One>>

(***************************************************************************)
(* C7.  For r >= 0 the vector sbh_vec4_rect_from_schwarzschild returns has *)
(* x^2 + y^2 + z^2 equal to r^2 within floating-point tolerance: the       *)
(* relative error is at most 9 * 2^-Precision, nine units of roundoff.     *)
(***************************************************************************)
C7_RadiusPreserved ==
    \A c \in Callers :
        (Returned(c, "sbh_vec4_rect_from_schwarzschild") /\ args[c][1] >= 0) =>
            LET x == vec[c][Dat(0)]
                y == vec[c][Dat(1)]
                z == vec[c][Dat(2)]
                r == args[c][1]
            IN  Abs(x * x + y * y + z * z - r * r) * (2 ^ Precision)
                    <= 9 * r * r

(* A case where the sum of squares is not r^2 itself. *)
C7_Witness ==
    /\ Returned(1, "sbh_vec4_rect_from_schwarzschild")
    /\ args[1][1] = 2 * One
    /\ LET x == vec[1][Dat(0)]
           y == vec[1][Dat(1)]
           z == vec[1][Dat(2)]
       IN  /\ x # 0 /\ y # 0 /\ z # 0
           /\ x * x + y * y + z * z # 4 * One * One

(***************************************************************************)
(* C8 as claimed.  Converting a vector that a conversion returned gives a  *)
(* vector different from it.                                               *)
(***************************************************************************)
C8_NeverIdempotent ==
    \A c \in Callers : \A pr \in recon[c] : pr[2] # pr[1]

(***************************************************************************)
(* C8 as amended.  Converting a vector that a conversion returned leaves   *)
(* it as it is when its dat[0], dat[1], dat[2] are all 0, and gives a      *)
(* different vector when they are not all 0 and dat[0] is 0, or            *)
(* |sin(dat[2])| < 1, or |cos(dat[1])| < 1.                                *)
(***************************************************************************)
C8_IdempotentOnlyAtOrigin ==
    \A c \in Callers :
        \A pr \in recon[c] :
            /\ Spatial(pr[1]) = <<0, 0, 0>> => pr[2] = pr[1]
            /\ ( /\ Spatial(pr[1]) # <<0, 0, 0>>
                 /\ \/ pr[1][1] = 0
                    \/ Abs(Sin(pr[1][3])) < One
                    \/ Abs(Cos(pr[1][2])) < One ) => pr[2] # pr[1]

(* A second conversion of a vector with x, y and z other than 0. *)
C8_Witness ==
    \E pr \in recon[1] :
        /\ pr \in InPlace(1)
        /\ pr[1][1] # 0 /\ pr[1][2] # 0 /\ pr[1][3] # 0
        /\ pr[2] # pr[1]

(***************************************************************************)
(* C9.  Two callers, each making one call on values of its own, the        *)
(* statements of the two calls interleaved in any order: each call gives   *)
(* the result it gives alone, and leaves the caller's other objects alone. *)
(***************************************************************************)
C9_AloneResult ==
    \A c \in Callers :
        (pc[c] = 0 /\ made[c] = 1) =>
            /\ fn[c] = "sbh_vec4_rect" => vec[c] = args[c] /\ out[c] = Zero4
            /\ fn[c] = "sbh_vec4_rect_from_schwarzschild" =>
                  vec[c] = Rectangular(args[c]) /\ out[c] = Zero4
            /\ fn[c] = "sbh_vec4_schwarzschild_to_rect" =>
                  out[c] = Rectangular(qin[c]) /\ vec[c] = qin[c]
            /\ fn[c] = "sbh_vec4_convert_schwarzschild_to_rect" =>
                  vec[c] = Rectangular(hist[c][1]) /\ out[c] = Zero4

(* Both callers have converted in place, each while the other was in its   *)
(* call.                                                                   *)
C9_Witness ==
    /\ \A c \in Callers :
          /\ pc[c] = 0
          /\ overlap[c]
          /\ fn[c] = "sbh_vec4_convert_schwarzschild_to_rect"
          /\ vec[c] # hist[c][1]
    /\ hist[1][1] # hist[2][1]

(***************************************************************************)
(* C10.  In one sbh_vec4_convert_schwarzschild_to_rect call the reads of   *)
(* *p (dat[0] for r, dat[1] for sin and cos of phi, dat[2] for sin and cos *)
(* of theta) all come before the first write, the writes are of dat[0],    *)
(* dat[1], dat[2] in that order, and each written value is computed from   *)
(* the values *p had before the call.                                      *)
(***************************************************************************)
AccessOrder ==
    <<<<"read", 0>>, <<"read", 1>>, <<"read", 1>>, <<"read", 2>>,
      <<"read", 2>>, <<"write", 0>>, <<"write", 1>>, <<"write", 2>>>>

(* *p before the in-place conversion caller c called last. *)
Before(c) ==
    IF pc[c] = 0 THEN hist[c][Len(hist[c]) - 1] ELSE hist[c][Len(hist[c])]

C10_ReadsBeforeWrites ==
    \A c \in Callers :
        fn[c] = "sbh_vec4_convert_schwarzschild_to_rect" =>
            /\ Len(log[c]) <= Len(AccessOrder)
            /\ log[c] = SubSeq(AccessOrder, 1, Len(log[c]))
            /\ \A i \in 0 .. 2 :
                  vec[c][Dat(i)] =
                      IF Len(log[c]) >= 6 + i
                      THEN Rectangular(Before(c))[Dat(i)]
                      ELSE Before(c)[Dat(i)]
            /\ pc[c] = 0 => Len(log[c]) = Len(AccessOrder)

(* dat[0] has been overwritten with another value, dat[1] and dat[2] are   *)
(* about to be written.                                                    *)
C10_Witness ==
    /\ fn[1] = "sbh_vec4_convert_schwarzschild_to_rect"
    /\ pc[1] = 149
    /\ Before(1) = <<2 * One, PiQuarter, PiQuarter, 5 * One>>
    /\ vec[1][Dat(0)] # Before(1)[Dat(0)]
    /\ vec[1][Dat(0)] # 0

=============================================================================
